---- MODULE Spec2Model ----
(***************************************************************************)
(* Model of sChat's backend (src/main.py): a prompt is fanned out to        *)
(* several hosted models, per-model progress is tracked in the process-wide *)
(* map query_status, the answers are synthesised by one more call and the   *)
(* outcome is stored in query_results and appended to query_log.json.       *)
(*                                                                          *)
(* The program runs on one asyncio event loop: the code between two awaits  *)
(* is one atomic step.  Each action below is one such step.                 *)
(*                                                                          *)
(* Text is modelled as a tuple of string pieces; a model identifier is the  *)
(* tuple of its segments, <<"openai/gpt-4o", ":online">>.                   *)
(***************************************************************************)
EXTENDS Integers, Sequences, FiniteSets, TLC

VARIABLES
    query_status,   \* main.py:21  request_id -> [models, aggregation_status]
    query_results,  \* main.py:25  request_id -> stored result
    bg,             \* request_id -> position and locals of process_query_background
    calls,          \* request_id -> the per-model calls received by the gateway, in order
    agg_calls,      \* request_id -> the aggregation calls received by the gateway
    query_log,      \* the file query_log.json
    completed,      \* request ids in the order their aggregated result was stored for good
    response,       \* the HTTP response produced by the last step (NoResponse if none)
    optimizer,      \* the calls of optimize_prompt: made in all, and still awaited
    optimization_log \* the file optimization_log.json

vars == <<query_status, query_results, bg, calls, agg_calls, query_log, completed, response,
          optimizer, optimization_log>>

optvars == <<optimizer, optimization_log>>

----------------------------------------------------------------------------
(* Bounds of the model *)

MaxRequests == 2    \* accepted requests
MaxModels == 2      \* length of a submitted model list
MaxCalls == 2       \* per-model calls of all accepted requests together
MaxOptimizations == 2   \* optimize requests
MaxTextLen == 4     \* pieces of a text the optimizer model returns

----------------------------------------------------------------------------
(* Constants of the program *)

None == "None"

AVAILABLE_MODELS ==
    << <<"openai/gpt-4o", ":online">>,
       <<"anthropic/claude-sonnet-4.5", ":online">>,
       <<"perplexity/sonar-pro">>,
       <<"x-ai/grok-4", ":online">>,
       <<"google/gemini-2.0-flash-001", ":online">> >>

AGGREGATOR_MODELS == AVAILABLE_MODELS \o << <<"deepseek/deepseek-chat", ":online">> >>

DefaultAggregator == <<"anthropic/claude-sonnet-4.5">>

Range(s) == {s[i] : i \in DOMAIN s}

(* Inputs the model draws from *)
ModelInputs ==
    { <<"openai/gpt-4o", ":online">>,
      <<"x-ai/grok-4", ":online">>,
      <<"deepseek/deepseek-chat", ":online">> }

AggregatorInputs == { DefaultAggregator, <<"mistralai/mistral-large", ":online">> }

PromptInputs == { "prompt" }

RequestIds == 1..MaxRequests

ModelLists == UNION { [1..n -> ModelInputs] : n \in 0..MaxModels }

NoResponse == [op |-> "none"]

----------------------------------------------------------------------------
(* Replies of the external gateway to one call *)

GatewayReplies ==
    { [kind |-> "response", content |-> "answer", has_usage |-> TRUE,
       completion_tokens |-> 3, total_tokens |-> 9, message |-> ""],
      [kind |-> "timeout", content |-> "", has_usage |-> FALSE,
       completion_tokens |-> 0, total_tokens |-> 0, message |-> ""],
      [kind |-> "exception", content |-> "", has_usage |-> FALSE,
       completion_tokens |-> 0, total_tokens |-> 0, message |-> "boom"],
      \* a reply without choices: reading it raises (main.py:130)
      [kind |-> "malformed", content |-> "", has_usage |-> TRUE,
       completion_tokens |-> 3, total_tokens |-> 9,
       message |-> "'NoneType' object is not subscriptable"] }

(* The aggregation call has no asyncio timeout; a reply that cannot be read *)
(* ends in the same except clause as an exception (main.py:247-249).       *)
AggregatorReplies == { r \in GatewayReplies : r.kind \in {"response", "exception"} }

(* Outcomes of writing query_log.json *)
WriteOutcomes == { "written", "failed_untouched", "failed_truncated" }

----------------------------------------------------------------------------
(* Helpers *)

Min(a, b) == IF a <= b THEN a ELSE b

(* Python truthiness of an Optional[str] *)
Falsy(x) == x = None \/ x = ""

(* Variant: the assignment leaves the new key alone in the dictionary *)
PutAlone(f, k, v) == [x \in {k} |-> v]

Put(f, k, v) == [x \in DOMAIN f \cup {k} |-> IF x = k THEN v ELSE f[x]]

----------------------------------------------------------------------------
(* query_model, main.py:78-171 *)

MaxTokens == 4000

(* main.py:81: 120 s when the name contains "grok" or "claude", else 60 s *)
SlowNames == { "x-ai/grok-4", "anthropic/claude-sonnet-4.5" }

timeout(model) == IF \E i \in DOMAIN model : model[i] \in SlowNames THEN 120 ELSE 60

TimeoutMessage(model) ==
    IF timeout(model) = 120 THEN "Request timed out after 120.0 seconds"
                           ELSE "Request timed out after 60.0 seconds"

(* main.py:109-115 *)
Tokens(reply) ==
    IF ~reply.has_usage THEN 0
    ELSE IF reply.completion_tokens # 0 THEN reply.completion_tokens
    ELSE Min(reply.total_tokens, MaxTokens)

PendingStatus == [status |-> "pending", start_time |-> None, end_time |-> None, error |-> None]

QueryingStatus == [status |-> "querying", start_time |-> "t", end_time |-> None, error |-> None]

(* Variant: a call that timed out is filed as an error *)
FinalStatusTimeoutAsError(model, reply) ==
    CASE reply.kind = "response" ->
           [status |-> "completed", start_time |-> "t", end_time |-> "t", error |-> None]
      [] reply.kind = "timeout" ->
           [status |-> "error", start_time |-> "t", end_time |-> "t",
            error |-> TimeoutMessage(model)]
      [] OTHER ->
           [status |-> "error", start_time |-> "t", end_time |-> "t",
            error |-> reply.message]

(* main.py:119-126, 138-145, 157-164 *)
FinalStatus(model, reply) ==
    CASE reply.kind = "response" ->
           [status |-> "completed", start_time |-> "t", end_time |-> "t", error |-> None]
      [] reply.kind = "timeout" ->
           [status |-> "timeout", start_time |-> "t", end_time |-> "t",
            error |-> TimeoutMessage(model)]
      [] OTHER ->
           [status |-> "error", start_time |-> "t", end_time |-> "t",
            error |-> reply.message]

(* main.py:128-133, 147-152, 166-171 *)
QueryResult(model, reply) ==
    CASE reply.kind = "response" ->
           [model |-> model, response |-> reply.content, tokens |-> Tokens(reply),
            error |-> None]
      [] reply.kind = "timeout" ->
           [model |-> model, response |-> "", tokens |-> 0,
            error |-> TimeoutMessage(model)]
      [] OTHER ->
           [model |-> model, response |-> "", tokens |-> 0, error |-> reply.message]

NoResult == [model |-> <<>>, response |-> "", tokens |-> 0, error |-> None]

(* Variant: the status is filed under the identifier without ":online" *)
StatusKeyStripped(model) == SelectSeq(model, LAMBDA seg : seg # ":online")

(* main.py:86-92: the status key written is the model identifier itself *)
StatusKey(model) == model

(* Variant: the status is filed under every request that tracks the model *)
SetModelStatusEvery(qs, request_id, model, st) ==
    [id \in DOMAIN qs |->
        IF StatusKey(model) \in DOMAIN qs[id].models
        THEN [qs[id] EXCEPT !.models = Put(@, StatusKey(model), st)]
        ELSE qs[id]]

(* main.py:86-92: query_status[request_id]["models"][model] = ... *)
SetModelStatus(qs, request_id, model, st) ==
    IF request_id \in DOMAIN qs
    THEN [qs EXCEPT ![request_id].models = Put(@, StatusKey(model), st)]
    ELSE qs

(* First step of the i-th query_model task of a request: the status becomes *)
(* "querying" and the call goes out (main.py:83-106).  The tasks created by *)
(* gather start in list order.                                              *)
query_model_start(request_id, i) ==
    /\ request_id \in DOMAIN bg
    /\ bg[request_id].pc = "gathering"
    /\ i \in DOMAIN bg[request_id].tasks
    /\ bg[request_id].tasks[i] = "ready"
    /\ \A j \in 1..(i-1) : bg[request_id].tasks[j] # "ready"
    /\ LET model == bg[request_id].models[i] IN
         /\ query_status' = SetModelStatus(query_status, request_id, model, QueryingStatus)
         /\ calls' = [calls EXCEPT ![request_id] = Append(@, model)]
    /\ bg' = [bg EXCEPT ![request_id].tasks[i] = "awaiting"]
    /\ response' = NoResponse
    /\ UNCHANGED optvars
    /\ UNCHANGED <<query_results, agg_calls, query_log, completed>>

(* Variant: the call ends without its final status being filed *)
query_model_end_unfiled(request_id, i, reply) ==
    /\ request_id \in DOMAIN bg
    /\ i \in DOMAIN bg[request_id].tasks
    /\ bg[request_id].tasks[i] = "awaiting"
    /\ \A j \in DOMAIN bg[request_id].tasks : bg[request_id].tasks[j] # "ready"
    /\ bg' = [bg EXCEPT ![request_id].tasks[i] = "done",
                        ![request_id].raw[i] = QueryResult(bg[request_id].models[i], reply),
                        ![request_id].finished = Append(@, i)]
    /\ response' = NoResponse
    /\ UNCHANGED optvars
    /\ UNCHANGED <<query_status, query_results, calls, agg_calls, query_log, completed>>

(* The call of the i-th task ends with a reply (main.py:108-171) *)
query_model_end(request_id, i, reply) ==
    /\ request_id \in DOMAIN bg
    /\ i \in DOMAIN bg[request_id].tasks
    /\ bg[request_id].tasks[i] = "awaiting"
    \* a reply is handled by the event loop after the tasks that gather made
    \* ready have run up to their call
    /\ \A j \in DOMAIN bg[request_id].tasks : bg[request_id].tasks[j] # "ready"
    /\ LET model == bg[request_id].models[i] IN
         /\ query_status' = SetModelStatus(query_status, request_id, model,
                                           FinalStatus(model, reply))
         /\ bg' = [bg EXCEPT ![request_id].tasks[i] = "done",
                             ![request_id].raw[i] = QueryResult(model, reply),
                             ![request_id].finished = Append(@, i)]
    /\ response' = NoResponse
    /\ UNCHANGED optvars
    /\ UNCHANGED <<query_results, calls, agg_calls, query_log, completed>>

----------------------------------------------------------------------------
(* aggregate_responses, main.py:173-249 *)

Online == ":online"

(* main.py:178: aggregator_model.replace(':online', '') *)
StripOnline(model) == SelectSeq(model, LAMBDA seg : seg # Online)

(* main.py:182-187 *)
model_notes(model) ==
    CASE model = <<"anthropic/claude-sonnet-4.5", ":online">> ->
           " (strong reasoning, detailed analysis)"
      [] model = <<"x-ai/grok-4", ":online">> -> " (real-time X/Twitter access)"
      [] model = <<"perplexity/sonar-pro">> -> " (native web search with citations)"
      [] model = <<"google/gemini-2.0-flash-001", ":online">> ->
           " (multimodal capabilities, Google search)"
      [] OTHER -> ""

(* main.py:194-197: one numbered entry of the aggregation prompt *)
FormatEntry(idx, resp) ==
    [idx |-> idx, model_name |-> resp.model, model_note |-> model_notes(resp.model),
     body |-> IF ~Falsy(resp.error) THEN <<"[ERROR: ", resp.error, "]">>
                                    ELSE <<"\n", resp.response>>]

(* main.py:189-197 *)
formatted_responses(responses) ==
    [idx \in DOMAIN responses |-> FormatEntry(idx, responses[idx])]

(* main.py:199-246: the call sent to the gateway *)
AggregationCall(query, responses, aggregator_model) ==
    [model |-> StripOnline(aggregator_model), query |-> query,
     entries |-> formatted_responses(responses)]

(* main.py:247-249 *)
AggregatedText(reply) ==
    IF reply.kind = "response" THEN <<reply.content>>
    ELSE <<"Error during aggregation: ", reply.message>>

----------------------------------------------------------------------------
(* process_query_background, main.py:284-356 *)

(* main.py:288: one query_model task per element of models *)
Tasks(models) == [i \in DOMAIN models |-> "ready"]

(* The background task starts: it creates the tasks and awaits gather *)
process_query_background_start(request_id) ==
    /\ request_id \in DOMAIN bg
    /\ bg[request_id].pc = "scheduled"
    /\ bg' = [bg EXCEPT ![request_id].pc = "gathering",
                        ![request_id].tasks = Tasks(bg[request_id].models),
                        ![request_id].raw = [i \in DOMAIN bg[request_id].models |-> NoResult]]
    /\ response' = NoResponse
    /\ UNCHANGED optvars
    /\ UNCHANGED <<query_status, query_results, calls, agg_calls, query_log, completed>>

(* Variant: the wait returns with the first task that ends *)
GatheredFirst(tasks) == \E i \in DOMAIN tasks : tasks[i] = "done"

(* main.py:289: gather returns once every task has ended *)
Gathered(tasks) == \A i \in DOMAIN tasks : tasks[i] = "done"

(* Variant: every collected result counts as successful *)
successful_responses_any(raw_responses) == raw_responses

(* main.py:292 *)
successful_responses(raw_responses) ==
    SelectSeq(raw_responses, LAMBDA r : Falsy(r.error))

AllFailedResult == [error |-> "All model queries failed"]

(* Variant: the branch returns without storing anything *)
AllFailedDropped(results, request_id) == results

(* main.py:295 *)
AllFailedStored(results, request_id) == Put(results, request_id, AllFailedResult)

(* Variant: only the successful results are handed to the aggregator *)
AggregationInputSuccessful(raw_responses) == successful_responses(raw_responses)

(* main.py:302: the aggregator is given every raw result *)
AggregationInput(raw_responses) == raw_responses

(* main.py:291-302: gather has returned; either every call failed, or the  *)
(* aggregation status becomes "running" and the aggregation call goes out. *)
process_query_background_gathered(request_id) ==
    /\ request_id \in DOMAIN bg
    /\ bg[request_id].pc = "gathering"
    /\ Gathered(bg[request_id].tasks)
    /\ LET b == bg[request_id] IN
       IF successful_responses(b.raw) = <<>>
       THEN /\ query_results' = AllFailedStored(query_results, request_id)
            /\ bg' = [bg EXCEPT ![request_id].pc = "done",
                                ![request_id].events = @ \o <<"gathered", "result_stored">>]
            /\ UNCHANGED <<query_status, agg_calls>>
       ELSE /\ query_status' = [query_status EXCEPT ![request_id].aggregation_status = "running"]
            /\ agg_calls' = [agg_calls EXCEPT ![request_id] =
                                Append(@, AggregationCall(b.prompt, AggregationInput(b.raw),
                                                         b.aggregator))]
            /\ bg' = [bg EXCEPT ![request_id].pc = "aggregating",
                                ![request_id].events =
                                    @ \o <<"gathered", "aggregation_running", "aggregation_call">>]
            /\ UNCHANGED query_results
    /\ response' = NoResponse
    /\ UNCHANGED optvars
    /\ UNCHANGED <<calls, query_log, completed>>

(* Variant: the entries of the successful calls come first *)
IndividualSuccessfulFirst(raw_responses) ==
    LET ordered == SelectSeq(raw_responses, LAMBDA r : Falsy(r.error))
                      \o SelectSeq(raw_responses, LAMBDA r : ~Falsy(r.error))
    IN  [i \in DOMAIN ordered |->
            [model |-> ordered[i].model,
             response |-> IF Falsy(ordered[i].error)
                          THEN <<ordered[i].response>>
                          ELSE <<"Error: ", ordered[i].error>>,
             tokens |-> ordered[i].tokens]]

(* main.py:308-315 *)
Individual(raw_responses) ==
    [i \in DOMAIN raw_responses |->
        [model |-> raw_responses[i].model,
         response |-> IF Falsy(raw_responses[i].error)
                      THEN <<raw_responses[i].response>>
                      ELSE <<"Error: ", raw_responses[i].error>>,
         tokens |-> raw_responses[i].tokens]]

(* main.py:318-322 *)
StoredResult(request_id, aggregated, raw_responses) ==
    [aggregated |-> aggregated, individual |-> Individual(raw_responses),
     request_id |-> request_id]

RECURSIVE SumTokens(_)
SumTokens(rs) == IF rs = <<>> THEN 0 ELSE rs[1].tokens + SumTokens(Tail(rs))

(* main.py:335-351; request_id is not part of the record in the file: it    *)
(* is kept here to tell which query a record belongs to.                    *)
LogRecord(request_id, b, aggregated) ==
    [request_id |-> request_id, user_prompt |-> b.prompt, models_used |-> b.models,
     aggregator |-> b.aggregator, individual_responses |-> b.raw,
     aggregated_response |-> aggregated, total_tokens |-> SumTokens(b.raw)]

(* main.py:330-333: an absent or unparsable file reads as the empty list *)
ReadLog(file) == IF file.state = "valid" THEN file.records ELSE <<>>

(* main.py:353: write_text truncates the file and then writes it *)
WriteLog(file, logs, outcome) ==
    CASE outcome = "written" -> [state |-> "valid", records |-> logs]
      [] outcome = "failed_truncated" -> [state |-> "corrupt", records |-> <<>>]
      [] OTHER -> file

WriteErrorResult == [error |-> "write failed"]

(* Variant: the event loop gets control between the store of the result    *)
(* and the write of the log                                                *)
process_query_background_aggregated_await(request_id, reply, outcome) ==
    /\ request_id \in DOMAIN bg
    /\ LET b == bg[request_id] IN
       \/ /\ b.pc = "aggregating"
          /\ query_status' = [query_status EXCEPT ![request_id].aggregation_status = "completed"]
          /\ query_results' =
                Put(query_results, request_id,
                    StoredResult(request_id, AggregatedText(reply), b.raw))
          /\ bg' = [bg EXCEPT ![request_id].pc = "logging",
                              ![request_id].events =
                                  @ \o <<"aggregation_returned", "aggregation_completed",
                                         "result_stored">>]
          /\ UNCHANGED <<query_log, completed>>
       \/ /\ b.pc = "logging"
          /\ query_log' =
                WriteLog(query_log,
                         Append(ReadLog(query_log),
                                LogRecord(request_id, b, query_results[request_id].aggregated)),
                         outcome)
          /\ query_results' =
                IF outcome = "written" THEN query_results
                ELSE Put(query_results, request_id, WriteErrorResult)
          /\ bg' = [bg EXCEPT ![request_id].pc = "done",
                              ![request_id].events =
                                  @ \o (IF outcome = "written" THEN <<"log_written">>
                                        ELSE <<"log_failed", "error_stored">>)]
          /\ completed' = IF outcome = "written" THEN Append(completed, request_id)
                          ELSE completed
          /\ UNCHANGED query_status
    /\ response' = NoResponse
    /\ UNCHANGED optvars
    /\ UNCHANGED <<calls, agg_calls>>

(* main.py:302-356: the aggregation call has returned; the status becomes   *)
(* "completed", the result is stored and the log is rewritten, without an   *)
(* await in between; an exception of the write replaces the stored result.  *)
process_query_background_aggregated(request_id, reply, outcome) ==
    /\ request_id \in DOMAIN bg
    /\ bg[request_id].pc = "aggregating"
    /\ LET b == bg[request_id]
           aggregated == AggregatedText(reply)
           logs == Append(ReadLog(query_log), LogRecord(request_id, b, aggregated))
       IN
         /\ query_status' = [query_status EXCEPT ![request_id].aggregation_status = "completed"]
         /\ query_log' = WriteLog(query_log, logs, outcome)
         /\ query_results' =
               Put(query_results, request_id,
                   IF outcome = "written"
                   THEN StoredResult(request_id, aggregated, b.raw)
                   ELSE WriteErrorResult)
         /\ bg' = [bg EXCEPT ![request_id].pc = "done",
                             ![request_id].events =
                                 @ \o <<"aggregation_returned", "aggregation_completed",
                                        "result_stored">>
                                   \o (IF outcome = "written" THEN <<"log_written">>
                                       ELSE <<"log_failed", "error_stored">>)]
    /\ completed' = IF outcome = "written" THEN Append(completed, request_id) ELSE completed
    /\ response' = NoResponse
    /\ UNCHANGED optvars
    /\ UNCHANGED <<calls, agg_calls>>

----------------------------------------------------------------------------
(* chat, main.py:358-392 *)

(* Variant: the list is validated against the aggregator allow-list *)
invalid_models_aggregator(models) ==
    SelectSeq(models, LAMBDA m : m \notin Range(AGGREGATOR_MODELS))

(* main.py:365 *)
invalid_models(models) == SelectSeq(models, LAMBDA m : m \notin Range(AVAILABLE_MODELS))

(* Variant: the empty list is let through *)
NoModelsUnchecked(models) == FALSE

(* main.py:372: not request.models *)
NoModels(models) == models = <<>>

(* Variant: the models are entered as already querying *)
InitialStatusQuerying(models) ==
    [models |-> [m \in Range(models) |-> QueryingStatus], aggregation_status |-> "pending"]

(* main.py:382-386 *)
InitialStatus(models) ==
    [models |-> [m \in Range(models) |-> PendingStatus], aggregation_status |-> "pending"]

(* main.py:379: uuid4 gives an identifier that is not in use *)
FreshIds(qs) == RequestIds \ DOMAIN qs

RECURSIVE Sum(_, _)
Sum(f, S) == IF S = {} THEN 0
             ELSE LET x == CHOOSE y \in S : TRUE IN f[x] + Sum(f, S \ {x})

(* The per-model calls the accepted requests amount to *)
CallBudgetUsed == Sum([id \in DOMAIN bg |-> Len(bg[id].models)], DOMAIN bg)

(* main.py:389: the arguments handed to the background task *)
Scheduled(prompt, models, aggregator) ==
    [pc |-> "scheduled", prompt |-> prompt, models |-> models, aggregator |-> aggregator,
     tasks |-> <<>>, raw |-> <<>>, finished |-> <<>>, events |-> <<>>]

chat(prompt, models, aggregator) ==
    IF invalid_models(models) # <<>>
    THEN /\ response' = [op |-> "chat", status_code |-> 400,
                         detail |-> <<"Invalid models: ", invalid_models(models)>>]
         /\ UNCHANGED <<query_status, query_results, bg, calls, agg_calls, query_log, completed,
                      optimizer, optimization_log>>
    ELSE IF NoModels(models)
    THEN /\ response' = [op |-> "chat", status_code |-> 400,
                         detail |-> <<"At least one model must be selected">>]
         /\ UNCHANGED <<query_status, query_results, bg, calls, agg_calls, query_log, completed,
                      optimizer, optimization_log>>
    ELSE \E request_id \in FreshIds(query_status) :
         /\ CallBudgetUsed + Len(models) <= MaxCalls
         /\ query_status' = Put(query_status, request_id, InitialStatus(models))
         /\ bg' = Put(bg, request_id, Scheduled(prompt, models, aggregator))
         /\ calls' = Put(calls, request_id, <<>>)
         /\ agg_calls' = Put(agg_calls, request_id, <<>>)
         /\ response' = [op |-> "chat", status_code |-> 200, request_id |-> request_id]
         /\ UNCHANGED <<query_results, query_log, completed, optimizer, optimization_log>>

----------------------------------------------------------------------------
(* get_result, main.py:394-411 *)

Without(f, k) == [x \in DOMAIN f \ {k} |-> f[x]]

(* Variant: the entries are deleted once the result has been returned *)
get_result_cleanup(request_id) ==
    /\ response' =
          IF request_id \notin DOMAIN query_status
          THEN [op |-> "get_result", request_id |-> request_id, status_code |-> 404,
                detail |-> "Request ID not found"]
          ELSE IF request_id \in DOMAIN query_results
          THEN [op |-> "get_result", request_id |-> request_id, status_code |-> 200,
                body |-> query_results[request_id]]
          ELSE [op |-> "get_result", request_id |-> request_id, status_code |-> 200,
                body |-> [status |-> "processing"]]
    /\ query_results' = IF request_id \in DOMAIN query_results
                        THEN Without(query_results, request_id) ELSE query_results
    /\ UNCHANGED <<query_status, bg, calls, agg_calls, query_log, completed,
                   optimizer, optimization_log>>

get_result(request_id) ==
    /\ response' =
          IF request_id \notin DOMAIN query_status
          THEN [op |-> "get_result", request_id |-> request_id, status_code |-> 404,
                detail |-> "Request ID not found"]
          ELSE IF request_id \in DOMAIN query_results
          THEN [op |-> "get_result", request_id |-> request_id, status_code |-> 200,
                body |-> query_results[request_id]]
          ELSE [op |-> "get_result", request_id |-> request_id, status_code |-> 200,
                body |-> [status |-> "processing"]]
    /\ UNCHANGED <<query_status, query_results, bg, calls, agg_calls, query_log, completed,
                      optimizer, optimization_log>>

----------------------------------------------------------------------------
(* get_status, main.py:251-282 *)

(* Variant: the elapsed time is computed whether or not the call started *)
ElapsedAlways(data) ==
    IF data.end_time # None THEN "end_time - start_time" ELSE "current_time - start_time"

(* main.py:266-271: which difference, rounded, is reported as elapsed *)
Elapsed(data) ==
    IF data.start_time = None THEN None
    ELSE IF data.end_time # None THEN "end_time - start_time"
    ELSE "current_time - start_time"

(* main.py:264-282 *)
StatusBody(status_data) ==
    [models |-> [m \in DOMAIN status_data.models |->
                    [status |-> status_data.models[m].status,
                     elapsed |-> Elapsed(status_data.models[m]),
                     error |-> status_data.models[m].error]],
     aggregation_status |-> status_data.aggregation_status]

get_status(request_id) ==
    /\ response' =
          IF request_id \notin DOMAIN query_status
          THEN [op |-> "get_status", request_id |-> request_id, status_code |-> 404,
                detail |-> "Request ID not found"]
          ELSE [op |-> "get_status", request_id |-> request_id, status_code |-> 200,
                body |-> StatusBody(query_status[request_id])]
    /\ UNCHANGED <<query_status, query_results, bg, calls, agg_calls, query_log, completed,
                   optimizer, optimization_log>>

----------------------------------------------------------------------------
(* optimize_prompt, main.py:413-526 *)

(* A text is a sequence of pieces: blanks, line ends, a word, and a word   *)
(* group that spells one of the phrases in capitals.                       *)
Space == " "
Tab == "\t"
Newline == "\n"
Pieces == { Space, Tab, Newline, "word", "Based On" }

Texts(n) == UNION { [1..k -> Pieces] : k \in 0..n }

(* main.py:486: str.lower *)
lower(piece) == IF piece = "Based On" THEN "based on" ELSE piece

(* main.py:487-488 *)
phrases ==
    { "i'll first", "i'll optimize", "based on", "rationale for",
      "here's the optimized", "here's an optimized", "the prompt provides" }

(* str.strip removes blanks and line ends at both ends (main.py:476, 498) *)
IsSpace(piece) == piece \in { Space, Tab, Newline }

RECURSIVE lstrip(_)
lstrip(text) ==
    IF text = <<>> THEN text
    ELSE IF IsSpace(Head(text)) THEN lstrip(Tail(text)) ELSE text

RECURSIVE rstrip(_)
rstrip(text) ==
    IF text = <<>> THEN text
    ELSE IF IsSpace(text[Len(text)]) THEN rstrip(SubSeq(text, 1, Len(text) - 1)) ELSE text

strip(text) == rstrip(lstrip(text))

(* main.py:480: str.split on the line end; the empty text has one empty line *)
RECURSIVE split(_)
split(text) ==
    IF \A i \in DOMAIN text : text[i] # Newline THEN << text >>
    ELSE LET i == CHOOSE k \in DOMAIN text :
                     text[k] = Newline /\ \A j \in 1..(k - 1) : text[j] # Newline
         IN  << SubSeq(text, 1, i - 1) >> \o split(SubSeq(text, i + 1, Len(text)))

(* main.py:498: str.join *)
RECURSIVE join(_)
join(lines) ==
    IF lines = <<>> THEN <<>>
    ELSE IF Len(lines) = 1 THEN lines[1]
    ELSE lines[1] \o << Newline >> \o join(Tail(lines))

(* Variant: the phrases are looked for in the line as written *)
is_meta_exact(line) == \E i \in DOMAIN line : line[i] \in phrases

(* main.py:486-489: any(phrase in line.lower() ...) *)
is_meta(line) == \E i \in DOMAIN line : lower(line[i]) \in phrases

(* main.py:493: line.startswith(' ') *)
startswith_space(line) == line # <<>> /\ line[1] = Space

(* main.py:481-496: the loop over the lines *)
RECURSIVE cleaned_lines(_, _, _)
cleaned_lines(lines, skip_mode, acc) ==
    IF lines = <<>> THEN acc
    ELSE LET line == Head(lines) IN
         IF is_meta(line) THEN cleaned_lines(Tail(lines), TRUE, acc)
         ELSE LET skip == IF skip_mode /\ strip(line) # <<>> /\ ~startswith_space(line)
                          THEN FALSE ELSE skip_mode
              IN  cleaned_lines(Tail(lines), skip, IF skip THEN acc ELSE Append(acc, line))

(* main.py:476-498 *)
Optimized(content) == strip(join(cleaned_lines(split(strip(content)), FALSE, <<>>)))

OptimizePrompts == { "raw prompt" }

(* Outcomes of the call of main.py:469 that give no text: a response whose *)
(* content is null, a response without choices, an exception of the client *)
OptimizerFailures ==
    { [kind |-> "null_content", content |-> <<>>, has_usage |-> TRUE, total_tokens |-> 9,
       message |-> "'NoneType' object has no attribute 'strip'"],
      [kind |-> "malformed", content |-> <<>>, has_usage |-> TRUE, total_tokens |-> 9,
       message |-> "'NoneType' object is not subscriptable"],
      [kind |-> "exception", content |-> <<>>, has_usage |-> FALSE, total_tokens |-> 0,
       message |-> "boom"] }

(* Responses with a text, with or without usage *)
OptimizerResponses(contents, usages) ==
    { [kind |-> "response", content |-> c, has_usage |-> u, total_tokens |-> 9,
       message |-> None] : c \in contents, u \in usages }

(* Every text up to MaxTextLen pieces *)
CleanReplies == OptimizerResponses(Texts(MaxTextLen), { TRUE }) \cup OptimizerFailures

(* Two texts, one with a preamble line *)
OptimizerReplies ==
    OptimizerResponses({ << "word" >>, << "Based On", Newline, "word", Space, "word" >> }, BOOLEAN)
        \cup OptimizerFailures

(* main.py:476: the reply has choices and a content to strip *)
Readable(reply) == reply.kind = "response"

(* main.py:510-516 *)
OptimizationRecord(prompt, reply) ==
    [original |-> prompt, optimized |-> Optimized(reply.content),
     model |-> "anthropic/claude-3.5-haiku",
     tokens |-> IF reply.has_usage THEN reply.total_tokens ELSE 0]

(* Variant: the text is answered although the log could not be written *)
OptimizeAnswerUnlogged(reply, outcome) ==
    IF ~Readable(reply)
    THEN [status_code |-> 500, detail |-> << "Optimization failed: ", reply.message >>]
    ELSE [status_code |-> 200, optimized |-> Optimized(reply.content)]

(* main.py:520-526: what the endpoint answers *)
OptimizeAnswer(reply, outcome) ==
    IF ~Readable(reply)
    THEN [status_code |-> 500, detail |-> << "Optimization failed: ", reply.message >>]
    ELSE IF outcome # "written"
    THEN [status_code |-> 500, detail |-> << "Optimization failed: ", "write failed" >>]
    ELSE [status_code |-> 200, optimized |-> Optimized(reply.content)]

(* main.py:414-474: the handler runs up to its call of the gateway *)
optimize_prompt_start(prompt) ==
    /\ optimizer.calls < MaxOptimizations
    /\ optimizer' = [optimizer EXCEPT !.calls = @ + 1, !.awaited = Append(@, prompt)]
    /\ response' = NoResponse
    /\ UNCHANGED <<query_status, query_results, bg, calls, agg_calls, query_log, completed,
                   optimization_log>>

(* Variant: an optimization already logged is answered again *)
optimize_prompt_cached(k, reply, outcome) ==
    /\ k \in DOMAIN optimizer.awaited
    /\ optimizer' = [optimizer EXCEPT !.awaited = SubSeq(@, 1, k - 1) \o SubSeq(@, k + 1, Len(@)),
                                      !.answered = @ + 1]
    /\ optimization_log' =
          IF Readable(reply)
          THEN WriteLog(optimization_log,
                        Append(ReadLog(optimization_log),
                               OptimizationRecord(optimizer.awaited[k], reply)),
                        outcome)
          ELSE optimization_log
    /\ response' =
          [op |-> "optimize_prompt", reply |-> reply, outcome |-> outcome,
           read_failed |-> optimization_log.state = "corrupt",
           answer |-> IF ReadLog(optimization_log) # <<>>
                      THEN [status_code |-> 200,
                            optimized |-> ReadLog(optimization_log)[1].optimized]
                      ELSE OptimizeAnswer(reply, outcome)]
    /\ UNCHANGED <<query_status, query_results, bg, calls, agg_calls, query_log, completed>>

(* main.py:469-526: the call has returned or raised; the text is cleaned,   *)
(* the log rewritten and the answer produced without an await in between.  *)
optimize_prompt_end(k, reply, outcome) ==
    /\ k \in DOMAIN optimizer.awaited
    /\ optimizer' = [optimizer EXCEPT !.awaited = SubSeq(@, 1, k - 1) \o SubSeq(@, k + 1, Len(@)),
                                      !.answered = @ + 1]
    /\ optimization_log' =
          IF Readable(reply)
          THEN WriteLog(optimization_log,
                        Append(ReadLog(optimization_log),
                               OptimizationRecord(optimizer.awaited[k], reply)),
                        outcome)
          ELSE optimization_log
    /\ response' =
          [op |-> "optimize_prompt", reply |-> reply, outcome |-> outcome,
           read_failed |-> optimization_log.state = "corrupt",
           answer |-> OptimizeAnswer(reply, outcome)]
    /\ UNCHANGED <<query_status, query_results, bg, calls, agg_calls, query_log, completed>>

----------------------------------------------------------------------------
(* The system *)

Init ==
    /\ query_status = <<>>
    /\ query_results = <<>>
    /\ bg = <<>>
    /\ calls = <<>>
    /\ agg_calls = <<>>
    /\ query_log = [state |-> "absent", records |-> <<>>]
    /\ completed = <<>>
    /\ response = NoResponse
    /\ optimizer = [calls |-> 0, awaited |-> <<>>, answered |-> 0]
    /\ optimization_log = [state |-> "absent", records |-> <<>>]

Next ==
    \/ \E p \in PromptInputs, ms \in ModelLists, a \in AggregatorInputs : chat(p, ms, a)
    \/ \E id \in RequestIds : get_result(id)
    \/ \E id \in RequestIds : get_status(id)
    \/ \E id \in RequestIds : process_query_background_start(id)
    \/ \E id \in RequestIds, i \in 1..MaxModels : query_model_start(id, i)
    \/ \E id \in RequestIds, i \in 1..MaxModels, r \in GatewayReplies : query_model_end(id, i, r)
    \/ \E id \in RequestIds : process_query_background_gathered(id)
    \/ \E id \in RequestIds, r \in AggregatorReplies, o \in WriteOutcomes :
          process_query_background_aggregated(id, r, o)

Spec == Init /\ [][Next]_vars

(* The event loop runs every task that is ready, and every external call   *)
(* returns, fails or times out (main.py:95-106).                           *)
Fairness ==
    \A id \in RequestIds :
       /\ WF_vars(process_query_background_start(id))
       /\ WF_vars(\E i \in 1..MaxModels : query_model_start(id, i))
       /\ WF_vars(\E i \in 1..MaxModels, r \in GatewayReplies : query_model_end(id, i, r))
       /\ WF_vars(process_query_background_gathered(id))
       /\ WF_vars(\E r \in AggregatorReplies, o \in WriteOutcomes :
                     process_query_background_aggregated(id, r, o))

FairSpec == Spec /\ Fairness

(* The optimizer alone, one optimization, every text of the bound *)
CleanNext ==
    \/ \E p \in OptimizePrompts : optimize_prompt_start(p) /\ optimizer.calls = 0
    \/ \E k \in 1..MaxOptimizations, r \in CleanReplies, o \in WriteOutcomes :
          optimize_prompt_end(k, r, o)

CleanSpec == Init /\ [][CleanNext]_vars

SingleModelLists == { ms \in ModelLists : Len(ms) <= 1 }

(* The optimizer next to one request with one model *)
OptNext ==
    \/ \E p \in OptimizePrompts : optimize_prompt_start(p)
    \/ \E k \in 1..MaxOptimizations, r \in OptimizerReplies, o \in WriteOutcomes :
          optimize_prompt_end(k, r, o)
    \/ \E p \in PromptInputs, ms \in SingleModelLists, a \in AggregatorInputs :
          chat(p, ms, a) /\ query_status = <<>>
    \/ \E id \in RequestIds : get_result(id)
    \/ \E id \in RequestIds : get_status(id)
    \/ \E id \in RequestIds : process_query_background_start(id)
    \/ \E id \in RequestIds, i \in 1..MaxModels : query_model_start(id, i)
    \/ \E id \in RequestIds, i \in 1..MaxModels, r \in GatewayReplies : query_model_end(id, i, r)
    \/ \E id \in RequestIds : process_query_background_gathered(id)
    \/ \E id \in RequestIds, r \in AggregatorReplies, o \in WriteOutcomes :
          process_query_background_aggregated(id, r, o)

OptSpec == Init /\ [][OptNext]_vars

----------------------------------------------------------------------------
(* Properties *)

HasInvalid(ms) == \E i \in DOMAIN ms : ms[i] \notin Range(AVAILABLE_MODELS)

InvalidLists == {ms \in ModelLists : HasInvalid(ms)}

ValidLists == {ms \in ModelLists : ~HasInvalid(ms) /\ ms # <<>>}

Accepted == DOMAIN query_status

(* C1: a submit whose model list has an identifier outside AVAILABLE_MODELS *)
(* is answered 400 and leaves query_status and query_results unchanged and  *)
(* schedules no background task; no call for a model outside the allow-list *)
(* ever reaches the gateway.                                                *)
C1_InvalidRejected ==
    /\ [](\A id \in DOMAIN calls : \A i \in DOMAIN calls[id] : ~HasInvalid(<<calls[id][i]>>))
    /\ [][\A p \in PromptInputs, ms \in InvalidLists, a \in AggregatorInputs :
            chat(p, ms, a) =>
               /\ response'.op = "chat"
               /\ response'.status_code = 400
               /\ response'.detail[1] = "Invalid models: "
               /\ UNCHANGED <<query_status, query_results, bg, calls, agg_calls>>]_vars

C1_Witness ==
    /\ response.op = "chat"
    /\ response.status_code = 400
    /\ response.detail[1] = "Invalid models: "
    /\ \E id \in Accepted : bg[id].pc = "gathering"

(* C2: a submit with an empty model list is answered 400 'At least one     *)
(* model must be selected', creates no request identifier and changes no   *)
(* map; every entry of query_status tracks at least one model.             *)
C2_EmptyRejected ==
    /\ [](\A id \in Accepted : DOMAIN query_status[id].models # {})
    /\ [][\A p \in PromptInputs, a \in AggregatorInputs :
            chat(p, <<>>, a) =>
               /\ response'.op = "chat"
               /\ response'.status_code = 400
               /\ response'.detail = <<"At least one model must be selected">>
               /\ UNCHANGED <<query_status, query_results, bg, calls, agg_calls>>]_vars

C2_Witness ==
    /\ response.op = "chat"
    /\ response.status_code = 400
    /\ response.detail = <<"At least one model must be selected">>
    /\ Accepted # {}

(* C3: an accepted submit returns an identifier that was no key of         *)
(* query_status before; when it returns, the entry of that identifier      *)
(* tracks exactly the requested models, each pending without times or      *)
(* error, the aggregation status is pending, and no external call of the   *)
(* request has been made.                                                  *)
C3_AcceptedPending ==
    [][\A p \in PromptInputs, ms \in ValidLists, a \in AggregatorInputs :
          chat(p, ms, a) =>
             /\ response'.op = "chat"
             /\ response'.status_code = 200
             /\ LET id == response'.request_id IN
                  /\ id \notin DOMAIN query_status
                  /\ id \in DOMAIN query_status'
                  /\ DOMAIN query_status'[id].models = Range(ms)
                  /\ \A m \in Range(ms) :
                        query_status'[id].models[m] =
                           [status |-> "pending", start_time |-> None,
                            end_time |-> None, error |-> None]
                  /\ query_status'[id].aggregation_status = "pending"
                  /\ calls'[id] = <<>>
                  /\ agg_calls'[id] = <<>>
                  /\ id \notin DOMAIN query_results']_vars

C3_Witness ==
    /\ response.op = "chat"
    /\ response.status_code = 200
    /\ Cardinality(Accepted) = 2
    /\ \E id \in Accepted : id # response.request_id /\ calls[id] # <<>>

Count(s, x) == Cardinality({i \in DOMAIN s : s[i] = x})

FanOutFinished(id) == bg[id].pc \in {"aggregating", "done"}

(* C4: once the fan-out of a request has finished, exactly one call was    *)
(* issued per selected model, and the calls issued, the results collected  *)
(* and the per-model entries of the status map are equally many.           *)
C4_OneCallPerModel ==
    \A id \in Accepted :
       FanOutFinished(id) =>
          /\ \A m \in Range(bg[id].models) : Count(calls[id], m) = 1
          /\ Len(calls[id]) = Len(bg[id].raw)
          /\ Len(calls[id]) = Cardinality(DOMAIN query_status[id].models)

ModelStatuses == {"pending", "querying", "completed", "error", "timeout"}

AggregationStatuses == {"pending", "running", "completed"}

(* C5: every per-model status is one of pending, querying, completed,      *)
(* error, timeout, every aggregation status one of pending, running,       *)
(* completed, and the set of models tracked for a request never changes.   *)
C5_StatusValues ==
    /\ [](\A id \in Accepted :
            /\ query_status[id].aggregation_status \in AggregationStatuses
            /\ \A m \in DOMAIN query_status[id].models :
                  query_status[id].models[m].status \in ModelStatuses)
    /\ [][\A id \in Accepted :
            /\ id \in DOMAIN query_status'
            /\ DOMAIN query_status'[id].models = DOMAIN query_status[id].models]_vars

C5_Witness ==
    \E id \in Accepted :
       /\ query_status[id].aggregation_status = "completed"
       /\ \E m \in DOMAIN query_status[id].models : query_status[id].models[m].status = "timeout"
       /\ \E m \in DOMAIN query_status[id].models : query_status[id].models[m].status = "completed"

HasResult(id) == id \in DOMAIN query_results

(* C6: every accepted request eventually has an entry in query_results and *)
(* keeps it, so that get_result stops answering 'processing', provided     *)
(* every external call ends and the event loop keeps running.              *)
C6_EventuallyResult ==
    \A id \in RequestIds : (id \in Accepted) ~> [](HasResult(id))

C6_Witness ==
    /\ Cardinality(Accepted) = 2
    /\ \A id \in Accepted : HasResult(id)
    /\ \E id \in Accepted : query_results[id] = [error |-> "All model queries failed"]
    /\ \E id \in Accepted : "aggregated" \in DOMAIN query_results[id]

(* a occurs in ev, and every b of ev comes after the first a *)
Before(ev, a, b) ==
    /\ \E i \in DOMAIN ev : ev[i] = a
    /\ \A j \in DOMAIN ev : ev[j] = b => \E i \in 1..(j-1) : ev[i] = a

EveryCallEnded(id) ==
    /\ bg[id].pc \in {"gathering", "aggregating", "done"}
    /\ Len(calls[id]) = Len(bg[id].models)
    /\ \A i \in DOMAIN bg[id].tasks : bg[id].tasks[i] = "done"

Logged(id) == \E k \in DOMAIN query_log.records : query_log.records[k].request_id = id

(* C7: the aggregation call goes out, and the aggregation status leaves    *)
(* "pending", only after every per-model call of the request has ended;    *)
(* the aggregated result is stored only after the aggregation call has     *)
(* returned; the log record is written only after the result was stored.   *)
C7_StepOrder ==
    \A id \in Accepted :
       /\ (agg_calls[id] # <<>> \/ query_status[id].aggregation_status # "pending")
             => EveryCallEnded(id)
       /\ (HasResult(id) /\ "aggregated" \in DOMAIN query_results[id])
             => /\ Before(bg[id].events, "gathered", "aggregation_call")
                /\ Before(bg[id].events, "aggregation_call", "aggregation_returned")
                /\ Before(bg[id].events, "aggregation_returned", "result_stored")
       /\ Logged(id)
             => /\ Before(bg[id].events, "result_stored", "log_written")
                /\ HasResult(id)
                /\ "aggregated" \in DOMAIN query_results[id]

C7_Witness ==
    \E id \in Accepted :
       /\ Logged(id)
       /\ Len(bg[id].models) = 2
       /\ bg[id].models[1] # bg[id].models[2]

Succeeded(r) == r.error = None

(* C8: a request with at least one successful model gets exactly one       *)
(* aggregation call, whose prompt has one numbered entry per individual    *)
(* result, in request order, a failed one rendered as [ERROR: message].    *)
C8_AggregationInput ==
    \A id \in Accepted :
       /\ Len(agg_calls[id]) <= 1
       /\ (FanOutFinished(id) /\ \E i \in DOMAIN bg[id].raw : Succeeded(bg[id].raw[i]))
             => /\ Len(agg_calls[id]) = 1
                /\ LET entries == agg_calls[id][1].entries
                       raw == bg[id].raw
                   IN /\ Len(entries) = Len(bg[id].models)
                      /\ \A i \in DOMAIN entries :
                            /\ entries[i].idx = i
                            /\ entries[i].model_name = bg[id].models[i]
                            /\ entries[i].body =
                                  IF Succeeded(raw[i]) THEN <<"\n", raw[i].response>>
                                  ELSE <<"[ERROR: ", raw[i].error, "]">>

C8_Witness ==
    \E id \in Accepted :
       /\ Len(agg_calls[id]) = 1
       /\ Len(agg_calls[id][1].entries) = 2
       /\ agg_calls[id][1].entries[1].body[1] = "[ERROR: "
       /\ agg_calls[id][1].entries[2].body[1] = "\n"
       /\ bg[id].models[1] # bg[id].models[2]

LogRequestIds == [k \in DOMAIN query_log.records |-> query_log.records[k].request_id]

(* C9: the log holds one record per completed query, in completion order:  *)
(* each completed query adds one record at the end and no record written   *)
(* before is lost or changed.                                              *)
C9_AppendOnly == LogRequestIds = completed

(* C10: get_result answers 404 for an identifier that is no key of         *)
(* query_status, {'status': 'processing'} for a known one without an entry *)
(* in query_results, and the stored entry otherwise; it changes neither    *)
(* query_status nor query_results.                                         *)
C10_GetResult ==
    [][response'.op = "get_result" =>
          /\ UNCHANGED <<query_status, query_results>>
          /\ LET id == response'.request_id IN
               CASE id \notin Accepted ->
                      response'.status_code = 404
                 [] id \in Accepted /\ ~HasResult(id) ->
                      /\ response'.status_code = 200
                      /\ response'.body = [status |-> "processing"]
                 [] OTHER ->
                      /\ response'.status_code = 200
                      /\ response'.body = query_results[id]]_vars

C10_Witness ==
    /\ response.op = "get_result"
    /\ response.status_code = 200
    /\ "aggregated" \in DOMAIN response.body
    /\ \E id \in Accepted : id # response.request_id /\ ~HasResult(id)

(* C11: get_status answers 404 for an identifier that is no key of         *)
(* query_status; otherwise it reports the current status of every tracked  *)
(* model and the aggregation status, a pending model with elapsed = null;  *)
(* it changes neither query_status nor query_results.                      *)
C11_GetStatus ==
    [][response'.op = "get_status" =>
          /\ UNCHANGED <<query_status, query_results>>
          /\ LET id == response'.request_id IN
               IF id \notin Accepted
               THEN response'.status_code = 404
               ELSE /\ response'.status_code = 200
                    /\ response'.body.aggregation_status = query_status[id].aggregation_status
                    /\ DOMAIN response'.body.models = DOMAIN query_status[id].models
                    /\ \A m \in DOMAIN query_status[id].models :
                          /\ response'.body.models[m].status = query_status[id].models[m].status
                          /\ response'.body.models[m].error = query_status[id].models[m].error
                          /\ query_status[id].models[m].status = "pending"
                                => response'.body.models[m].elapsed = None]_vars

C11_Witness ==
    /\ response.op = "get_status"
    /\ response.status_code = 200
    /\ \E m \in DOMAIN response.body.models :
          response.body.models[m].status = "pending" /\ response.body.models[m].elapsed = None
    /\ \E m \in DOMAIN response.body.models : response.body.models[m].status = "querying"

IsPhraseLine(line) == \E i \in DOMAIN line : \E p \in phrases : lower(line[i]) = p

RECURSIVE IsSubsequence(_, _)
IsSubsequence(a, b) ==
    IF a = <<>> THEN TRUE
    ELSE IF b = <<>> THEN FALSE
    ELSE IF Head(a) = Head(b) THEN IsSubsequence(Tail(a), Tail(b))
    ELSE IsSubsequence(a, Tail(b))

Returned == response.op = "optimize_prompt" /\ response.answer.status_code = 200

(* C12 as stated: in the text returned by optimize_prompt no line contains *)
(* one of the phrases, whatever the case of its letters, and the returned  *)
(* lines are a subsequence, in the original order, of the lines of the     *)
(* model's output.                                                         *)
C12_Subsequence ==
    Returned =>
       LET lines == split(response.answer.optimized) IN
       /\ \A i \in DOMAIN lines : ~IsPhraseLine(lines[i])
       /\ IsSubsequence(lines, split(response.reply.content))

(* the k-th of n returned lines against a line of the model's output *)
SameLine(k, n, returned, original) ==
    returned = IF k = 1 /\ k = n THEN strip(original)
               ELSE IF k = 1 THEN lstrip(original)
               ELSE IF k = n THEN rstrip(original)
               ELSE original

RECURSIVE Embeds(_, _, _, _)
Embeds(k, n, returned, original) ==
    IF k > n THEN TRUE
    ELSE IF original = <<>> THEN FALSE
    ELSE \/ SameLine(k, n, returned[k], Head(original))
            /\ Embeds(k + 1, n, returned, Tail(original))
         \/ Embeds(k, n, returned, Tail(original))

(* C12, amended: in the text returned by optimize_prompt no line contains  *)
(* one of the phrases, whatever the case of its letters; the returned text *)
(* is empty, or its lines are, in the original order, lines of the model's *)
(* output, the first without its leading blanks and the last without its   *)
(* trailing blanks.                                                        *)
C12_Cleaned ==
    Returned =>
       LET lines == split(response.answer.optimized) IN
       /\ \A i \in DOMAIN lines : ~IsPhraseLine(lines[i])
       /\ \/ response.answer.optimized = <<>>
          \/ Embeds(1, Len(lines), lines, split(response.reply.content))

C12_Witness ==
    /\ Returned
    /\ \E i \in DOMAIN split(response.reply.content) :
          IsPhraseLine(split(response.reply.content)[i])
    /\ response.answer.optimized # <<>>
    /\ ~IsSubsequence(split(response.answer.optimized), split(response.reply.content))

(* C13: optimize_prompt, whether it succeeds or fails, leaves query_status *)
(* and query_results unchanged and issues exactly one external call, none  *)
(* to the models of the fan-out or the aggregator; its answer is a         *)
(* function of the reply to that call and of the outcome of its own log    *)
(* write, whatever was submitted, polled or optimized before.              *)
C13_Stateless ==
    [][/\ optimizer' # optimizer =>
             UNCHANGED <<query_status, query_results, calls, agg_calls>>
       /\ optimizer'.calls = Len(optimizer'.awaited) + optimizer'.answered
       /\ response'.op = "optimize_prompt" =>
             /\ optimizer'.calls = optimizer.calls
             /\ optimizer'.answered = optimizer.answered + 1
             /\ response'.answer = OptimizeAnswer(response'.reply, response'.outcome)]_vars

C13_Witness ==
    /\ response.op = "optimize_prompt"
    /\ response.answer.status_code = 200
    /\ optimizer.answered = MaxOptimizations
    /\ Len(optimization_log.records) = MaxOptimizations
    /\ optimization_log.records[1].optimized # response.answer.optimized
    /\ DOMAIN query_results # {}

Stage(status) == CASE status = "pending" -> 0 [] status = "querying" -> 1 [] OTHER -> 2

(* C14: the status of each model of a request moves only forward along     *)
(* pending -> querying -> {completed, error, timeout}: between two polls   *)
(* it never goes back to an earlier stage, and a status completed, error   *)
(* or timeout stays the same in every later poll.                          *)
C14_StatusForward ==
    [][\A id \in DOMAIN query_status : \A m \in DOMAIN query_status[id].models :
          LET old == query_status[id].models[m].status
              new == query_status'[id].models[m].status
          IN  /\ Stage(new) >= Stage(old)
              /\ Stage(old) = 2 => new = old]_vars

(* the step in which the call of the i-th task of a request ends *)
CallEnds(id, i) ==
    /\ id \in DOMAIN bg
    /\ i \in DOMAIN bg[id].tasks
    /\ bg[id].tasks[i] = "awaiting"
    /\ bg'[id].tasks[i] = "done"

(* status and result that timeouts and exceptions must end with *)
FailureClassified(model, reply, st, res) ==
    /\ reply.kind = "timeout" =>
          /\ st.status = "timeout"
          /\ res.response = "" /\ res.tokens = 0
          /\ res.error = TimeoutMessage(model) /\ st.error = res.error
    /\ reply.kind = "exception" =>
          /\ st.status = "error"
          /\ res.response = "" /\ res.tokens = 0
          /\ res.error = reply.message /\ st.error = res.error

(* C15 as stated: a call that returns a response ends with status          *)
(* completed and a result with error = None; a call that exceeds its       *)
(* timeout ends with status timeout and a result with empty response,      *)
(* 0 tokens and the time-out error; a call that raises another exception   *)
(* ends with status error and a result with empty response, 0 tokens and   *)
(* the exception text; every ended call hands a result to the fan-out.     *)
C15_Classified ==
    [][\A id \in RequestIds, i \in 1..MaxModels : CallEnds(id, i) =>
          \A reply \in GatewayReplies : query_model_end(id, i, reply) =>
             LET model == bg[id].models[i]
                 st == query_status'[id].models[model]
                 res == bg'[id].raw[i]
             IN  /\ res.model = model
                 /\ bg'[id].pc = bg[id].pc
                 /\ reply.kind \in { "response", "malformed" } =>
                       st.status = "completed" /\ res.error = None
                 /\ FailureClassified(model, reply, st, res)]_vars

(* C15, amended: a call that returns a response whose text can be read     *)
(* ends with status completed and a result with error = None; a call whose *)
(* response has no choices to read ends, like a call that raises, with     *)
(* status error and a result with empty response, 0 tokens and the text of *)
(* the exception; timeouts and exceptions are classified as stated; every  *)
(* ended call hands a result to the fan-out.                               *)
C15_ClassifiedReadable ==
    [][\A id \in RequestIds, i \in 1..MaxModels : CallEnds(id, i) =>
          \A reply \in GatewayReplies : query_model_end(id, i, reply) =>
             LET model == bg[id].models[i]
                 st == query_status'[id].models[model]
                 res == bg'[id].raw[i]
             IN  /\ res.model = model
                 /\ bg'[id].pc = bg[id].pc
                 /\ reply.kind = "response" =>
                       /\ st.status = "completed" /\ st.error = None
                       /\ res.error = None /\ res.response = reply.content
                 /\ reply.kind = "malformed" =>
                       /\ st.status = "error"
                       /\ res.response = "" /\ res.tokens = 0
                       /\ res.error = reply.message /\ st.error = res.error
                 /\ FailureClassified(model, reply, st, res)]_vars

C15_Witness ==
    \E id \in Accepted :
       /\ Len(bg[id].models) = 2
       /\ bg[id].models[1] # bg[id].models[2]
       /\ bg[id].tasks = << "done", "done" >>
       /\ query_status[id].models[bg[id].models[1]].status = "error"
       /\ bg[id].raw[1].error = "'NoneType' object is not subscriptable"
       /\ query_status[id].models[bg[id].models[2]].status = "timeout"

(* every per-model call of the request has ended, none with a result *)
AllFailed(id) ==
    /\ id \in DOMAIN bg
    /\ bg[id].tasks # <<>>
    /\ \A i \in DOMAIN bg[id].tasks : bg[id].tasks[i] = "done" /\ ~Succeeded(bg[id].raw[i])

(* C16: when every per-model call of a request has failed (error or        *)
(* timeout), the result stored is {'error': 'All model queries failed'},   *)
(* no aggregation call is issued, the aggregation status stays 'pending'   *)
(* and no record of the request is in the query log.                       *)
C16_AllFailed ==
    \A id \in Accepted : AllFailed(id) =>
       /\ agg_calls[id] = <<>>
       /\ query_status[id].aggregation_status = "pending"
       /\ \A k \in DOMAIN LogRequestIds : LogRequestIds[k] # id
       /\ bg[id].pc \in { "gathering", "done" }
       /\ bg[id].pc = "done" => HasResult(id)
       /\ HasResult(id) => query_results[id] = AllFailedResult

C16_Witness ==
    \E id \in Accepted :
       /\ AllFailed(id)
       /\ bg[id].pc = "done"
       /\ query_results[id] = AllFailedResult
       /\ Len(bg[id].raw) = 2
       /\ query_status[id].models[bg[id].models[1]].status = "timeout"
       /\ query_status[id].models[bg[id].models[2]].status = "error"

(* the request is finished, some of its calls failed and some succeeded *)
PartlyFailed(id) ==
    /\ id \in DOMAIN bg
    /\ bg[id].pc = "done"
    /\ \E i \in DOMAIN bg[id].raw : Succeeded(bg[id].raw[i])
    /\ \E i \in DOMAIN bg[id].raw : ~Succeeded(bg[id].raw[i])

HasIndividual(id) ==
    /\ HasResult(id)
    /\ { "aggregated", "individual" } \subseteq DOMAIN query_results[id]
    /\ LET individual == query_results[id].individual
           raw == bg[id].raw
       IN  /\ Len(individual) = Len(bg[id].models)
           /\ \A i \in DOMAIN individual :
                 /\ individual[i].model = bg[id].models[i]
                 /\ Succeeded(raw[i]) => individual[i].response = << raw[i].response >>
                 /\ ~Succeeded(raw[i]) =>
                       /\ individual[i].response = << "Error: ", raw[i].error >>
                       /\ individual[i].tokens = 0

(* C17: a request of which some but not all models failed completes with   *)
(* an aggregated result whose 'individual' list has one entry per selected *)
(* model, the response text for a successful model, 'Error: <message>' and *)
(* 0 tokens for a failed one.                                              *)
C17_PartialFailure == \A id \in Accepted : PartlyFailed(id) => HasIndividual(id)

(* the step in which the aggregation call of a request returns *)
AggregationEnds(id) ==
    /\ id \in DOMAIN bg
    /\ bg[id].pc = "aggregating"
    /\ bg'[id].pc = "done"

AggregationStage(status) ==
    CASE status = "pending" -> 0 [] status = "running" -> 1 [] OTHER -> 2

(* C18: when the aggregation call fails, the aggregation status still      *)
(* moves from running to completed and the result is stored with the text  *)
(* 'Error during aggregation: <message>' as 'aggregated' together with all *)
(* individual results; the aggregation status never goes backwards.        *)
C18_AggregationFailure ==
    [][/\ \A id \in DOMAIN query_status :
             AggregationStage(query_status'[id].aggregation_status)
                >= AggregationStage(query_status[id].aggregation_status)
       /\ \A id \in RequestIds : AggregationEnds(id) =>
             \A reply \in AggregatorReplies, outcome \in WriteOutcomes :
                (process_query_background_aggregated(id, reply, outcome)
                   /\ reply.kind = "exception")
                => /\ query_status[id].aggregation_status = "running"
                   /\ query_status'[id].aggregation_status = "completed"
                   /\ query_results'[id] =
                         [aggregated |-> << "Error during aggregation: ", reply.message >>,
                          individual |-> Individual(bg[id].raw),
                          request_id |-> id]]_vars

(* C19: a result stored for a request is never replaced or removed, and    *)
(* get_result answers with the result stored: once get_result has returned *)
(* a stored result for an identifier, every later get_result for it        *)
(* returns the same result, also when the write of the query log fails.    *)
C19_StableResult ==
    [][/\ \A id \in DOMAIN query_results :
             /\ id \in DOMAIN query_results'
             /\ query_results'[id] = query_results[id]
       /\ (response'.op = "get_result" /\ response'.request_id \in DOMAIN query_results)
             => /\ response'.status_code = 200
                /\ response'.body = query_results[response'.request_id]]_vars

C19_Witness ==
    /\ response.op = "get_result"
    /\ response.request_id \in DOMAIN query_results
    /\ response.body = WriteErrorResult
    /\ Before(bg[response.request_id].events, "result_stored", "log_failed")
    /\ \E id \in DOMAIN query_results : "aggregated" \in DOMAIN query_results[id]

(* C20: in every state in which a poll can run, a request whose            *)
(* aggregation status get_status reports as 'completed' has a stored       *)
(* result, which get_result returns instead of 'processing', and a request *)
(* with a stored result has no model reported as 'pending' or 'querying'.  *)
C20_StatusResultAgree ==
    \A id \in Accepted :
       LET body == StatusBody(query_status[id]) IN
       /\ body.aggregation_status = "completed" => HasResult(id)
       /\ HasResult(id) =>
             \A m \in DOMAIN body.models : body.models[m].status \notin { "pending", "querying" }

C20_Witness ==
    /\ \E id \in Accepted :
          /\ query_status[id].aggregation_status = "completed"
          /\ "aggregated" \in DOMAIN query_results[id]
    /\ \E id \in Accepted :
          /\ query_status[id].aggregation_status = "pending"
          /\ HasResult(id)

(* the status entry or the result of an identifier differs after the step *)
EntryChanged(id) ==
    \/ (id \in DOMAIN query_status) # (id \in DOMAIN query_status')
    \/ id \in DOMAIN query_status /\ query_status'[id] # query_status[id]
    \/ (id \in DOMAIN query_results) # (id \in DOMAIN query_results')
    \/ id \in DOMAIN query_results /\ query_results'[id] # query_results[id]

(* the step is the submit of the identifier or a step of its own task *)
OwnStep(id) == id \in DOMAIN bg' /\ (id \in DOMAIN bg => bg'[id] # bg[id])

(* C21: concurrent requests are isolated: a step made for one request      *)
(* changes the status entries and the result of no other request, and the  *)
(* result stored for a request is made of the results of its own calls.    *)
C21_Isolated ==
    /\ [](\A id \in DOMAIN query_results :
             \/ query_results[id] \in { AllFailedResult, WriteErrorResult }
             \/ /\ query_results[id].request_id = id
                /\ query_results[id].individual = Individual(bg[id].raw))
    /\ [][/\ \A id \in RequestIds : EntryChanged(id) => OwnStep(id)
          /\ \A a, b \in RequestIds : (OwnStep(a) /\ OwnStep(b)) => a = b]_vars

C21_Witness ==
    \E a, b \in Accepted :
       /\ a # b
       /\ bg[a].models = bg[b].models
       /\ query_status[a].models[bg[a].models[1]].status = "timeout"
       /\ query_status[b].models[bg[b].models[1]].status = "pending"
       /\ bg[b].pc = "gathering"

(* C22: the keys of query_results are keys of query_status, no key is ever *)
(* removed from either map, and get_status and get_result do not answer    *)
(* 404 for an accepted identifier.                                         *)
C22_KeysKept ==
    /\ [](DOMAIN query_results \subseteq DOMAIN query_status)
    /\ [][/\ DOMAIN query_status \subseteq DOMAIN query_status'
          /\ DOMAIN query_results \subseteq DOMAIN query_results'
          /\ (response'.op \in { "get_status", "get_result" }
                /\ response'.request_id \in DOMAIN query_status)
                => response'.status_code = 200]_vars

C22_Witness ==
    /\ response.op = "get_status"
    /\ response.status_code = 200
    /\ Cardinality(DOMAIN query_status) = 2
    /\ Cardinality(DOMAIN query_results) = 1
    /\ response.request_id \in DOMAIN query_results

(* C23: the 'individual' list of a stored result has the models of the     *)
(* submitted list, in the order of that list, whatever the order in which  *)
(* the calls ended.                                                        *)
C23_SubmittedOrder ==
    \A id \in DOMAIN query_results :
       "individual" \in DOMAIN query_results[id] =>
          /\ Len(query_results[id].individual) = Len(bg[id].models)
          /\ \A i \in DOMAIN bg[id].models :
                query_results[id].individual[i].model = bg[id].models[i]

C23_Witness ==
    \E id \in DOMAIN query_results :
       /\ "individual" \in DOMAIN query_results[id]
       /\ bg[id].finished = << 2, 1 >>
       /\ bg[id].models[1] # bg[id].models[2]
       /\ query_results[id].individual[1].model = bg[id].models[1]

(* C24: every aggregation call is made for a request whose aggregator      *)
(* identifier is in AGGREGATOR_MODELS, and the identifier sent to the      *)
(* gateway has no ':online' suffix.                                        *)
C24_AggregatorAllowed ==
    \A id \in DOMAIN agg_calls : \A k \in DOMAIN agg_calls[id] :
       /\ bg[id].aggregator \in Range(AGGREGATOR_MODELS)
       /\ \A i \in DOMAIN agg_calls[id][k].model : agg_calls[id][k].model[i] # Online

(* the answer is the 500 error of main.py:522-526 *)
OptimizationFailed(answer) ==
    /\ answer.status_code = 500
    /\ answer.detail[1] = "Optimization failed: "
    /\ "optimized" \notin DOMAIN answer

(* the answer is the text, and one record of it was added to the records read *)
OptimizationLogged(answer) ==
    /\ answer.status_code = 200
    /\ optimization_log'.state = "valid"
    /\ Len(optimization_log'.records) = Len(ReadLog(optimization_log)) + 1
    /\ SubSeq(optimization_log'.records, 1, Len(ReadLog(optimization_log)))
          = ReadLog(optimization_log)
    /\ LET record == optimization_log'.records[Len(optimization_log'.records)] IN
          /\ DOMAIN record = { "original", "optimized", "model", "tokens" }
          /\ record.optimized = answer.optimized
          /\ record.original \in OptimizePrompts

(* C25 as stated: a failure of the external call and a failure while       *)
(* reading or writing optimization_log.json all yield the 500 error        *)
(* 'Optimization failed: <message>'; on success exactly one record is      *)
(* appended to the optimization log.                                       *)
C25_FailuresReported ==
    [][response'.op = "optimize_prompt" =>
          IF \/ ~Readable(response'.reply)
             \/ response'.read_failed
             \/ response'.outcome # "written"
          THEN OptimizationFailed(response'.answer)
          ELSE OptimizationLogged(response'.answer)]_vars

(* C25, amended: a failure of the external call and a failure while        *)
(* writing optimization_log.json yield the 500 error 'Optimization failed: *)
(* <message>' and no text; a failure while reading the log is ignored and  *)
(* the log is taken as empty; on success exactly one record (original,     *)
(* optimized, model, tokens) is added to the records read and written      *)
(* before the answer is returned; a failed call leaves the log untouched.  *)
C25_FailuresReportedWrite ==
    [][response'.op = "optimize_prompt" =>
          /\ IF ~Readable(response'.reply) \/ response'.outcome # "written"
             THEN OptimizationFailed(response'.answer)
             ELSE OptimizationLogged(response'.answer)
          /\ ~Readable(response'.reply) => optimization_log' = optimization_log]_vars

C25_Witness ==
    /\ response.op = "optimize_prompt"
    /\ response.read_failed
    /\ response.answer.status_code = 200
    /\ Len(optimization_log.records) = 1
    /\ optimizer.answered = 2

====
